---- MODULE Spec2Model ----
(***************************************************************************)
(* Model of prl_hpp_tsid:                                                  *)
(*   prl_pinocchio/robot.py  Robot: create_dof_lookup,                     *)
(*                           _rearrange_ros_to_pin, get_meas_qvtau         *)
(*   prl_hpp/planner.py      Planner: make_pick_and_place, _create_path,   *)
(*                           make_gripper_approach, _safe_solve            *)
(*   prl_tsid/scripts/example_ur5_impedance.py                             *)
(*                           control_from_fts_cb, control_from_joy_cb      *)
(* Python lists are sequences; Python indices are 0-based, so a stored     *)
(* index k names the element k+1 of a sequence.  Positions are integers    *)
(* in units of 1e-4.                                                       *)
(***************************************************************************)
EXTENDS Integers, Sequences, FiniteSets, TLC

\* ---------------------------------------------------------------- bounds
\* joints of the model besides the universe joint
MaxJoints == 2
\* length of a tagged telemetry vector (position, velocity, effort)
MaxVec == 3
\* length of a position vector with values around the joint limits
MaxPos == 2
\* waypoints of a solved path
MaxWps == 5
\* draws of the sampling loop of make_gripper_approach (range(100), scaled)
SampleAttempts == 3
\* length of the filter window of the script (int(1 / 0.01), scaled)
FILT_WIN == 3
\* wrench messages the script receives
MaxMsgs == 7

\* ------------------------------------------------------- python helpers
\* the value standing for "no value" where Python raises or holds None
None == -1

RECURSIVE SeqSum(_)
SeqSum(s) == IF s = <<>> THEN 0 ELSE Head(s) + SeqSum(Tail(s))

RECURSIVE Flatten(_)
Flatten(ss) == IF ss = <<>> THEN <<>> ELSE Head(ss) \o Flatten(Tail(ss))

SeqsUpTo(S, n) == UNION {[1..k -> S] : k \in 0..n}

Range(s) == {s[i] : i \in DOMAIN s}

Abs(x) == IF x < 0 THEN -x ELSE x

Max(a, b) == IF a > b THEN a ELSE b

Min(a, b) == IF a < b THEN a ELSE b

\* list.index(x): the 0-based position of the first x, None for ValueError
PyIndex(list, x) ==
    IF \E i \in DOMAIN list : list[i] = x
    THEN (CHOOSE i \in DOMAIN list :
             list[i] = x /\ \A j \in 1..(i - 1) : list[j] # x) - 1
    ELSE None

\* list[a:b] for 0 <= a, 0 <= b
PySlice(list, a, b) == SubSeq(list, a + 1, Min(b, Len(list)))

\* ------------------------------------------------------------ the robot
VARIABLES
    pin_joints,        \* pin_robot_wrapper.model.joints, the universe joint first
    ros_joint_names,   \* name field of the first JointState message
    robot_pc,          \* "new", "ready" (constructed), "failed" (__init__ raised)
    q_pin_to_ros, q_ros_to_pin, v_pin_to_ros, v_ros_to_pin,
    joints_state,      \* last JointState message: position, velocity, effort
    meas               \* outcome of the last get_meas_qvtau call

robot_vars == <<pin_joints, ros_joint_names, robot_pc, q_pin_to_ros, q_ros_to_pin,
                v_pin_to_ros, v_ros_to_pin, joints_state, meas>>

VARIABLES
    pp_pc,        \* make_pick_and_place: "idle", "solve", "split", and the ends
                  \* "raised_init" (assert of line 288/294), "empty" (return []),
                  \* "raised_split" (lines 321-323 raised), "done" (three Paths)
    pose_pick, pose_place,   \* position + quaternion, merged (lines 269-270)
    wps,          \* ps.getWaypoints(pathId)[0]
    pick_index, place_index,
    sub_paths,    \* the waypoint lists _create_path has made a path of, in order
    n_param       \* calls of _timeParametrizePath

planner_vars == <<pp_pc, pose_pick, pose_place, wps, pick_index, place_index,
                  sub_paths, n_param>>

VARIABLES
    ga_pc,        \* make_gripper_approach: "idle", "sample", "plan", and the ends
                  \* "raised_init" (assert of line 157), "raised_nogoal" (assert
                  \* of line 171), "not_planned" (return of line 175),
                  \* "raised_plan" (computePath raised), "done" (a Path)
    do_not_plan,
    n_draws,      \* calls of shootRandomConfig in this call
    attempts,     \* per draw: res_pre, res_grasp, whether directPath was
                  \* called, and its res_path
    q_goals,      \* the pool of [q_pre, q_grasp]
    check_paths,  \* ids of the paths directPath has added to the problem
                  \* solver in this call and erasePath has not erased
    ga_path       \* <<q_end, q_end_grasp>> of the Path returned, <<>> if none

approach_vars == <<ga_pc, do_not_plan, n_draws, attempts, q_goals, check_paths,
                   ga_path>>

VARIABLES
    filt_list, filt_i, filt_avg,   \* the globals of lines 80-82
    wrenches,     \* the wrench samples control_from_fts_cb has processed
    published,    \* the last res_fric published, <<>> before the first
    joy_axes,     \* axes of the last Joy message, <<>> before the first
    ee_vel        \* the last velocity given to pf.eeVelSample.derivative

script_vars == <<filt_list, filt_i, filt_avg, wrenches, published, joy_axes, ee_vel>>

JointNames == {"A", "B"}

\* names a JointState message can carry: the model's and a foreign one
RosNames == JointNames \cup {"X"}

\* (nq, nv) of a joint: revolute, continuous, planar-like
DofShapes == {<<1, 1>>, <<2, 1>>, <<2, 2>>}

Joint(name, shape) == [name |-> name, nq |-> shape[1], nv |-> shape[2]]

\* model.joints[0], the universe joint, which model.names[1:] leaves out: a
\* default joint model of one scalar (with it the tables of a robot of
\* revolute joints, as the scripts drive, come out as permutations of [0, N))
UniverseJoint == Joint("universe", <<1, 1>>)

\* the joint lists a model can hold: distinct names, universe first
ModelJointLists(shapes) ==
    {<<UniverseJoint>> \o js :
        js \in {s \in SeqsUpTo({Joint(n, sh) : n \in JointNames, sh \in shapes}, MaxJoints) :
                  /\ Len(s) >= 1
                  /\ \A i, j \in DOMAIN s : i # j => s[i].name # s[j].name}}

\* Robot.get_joint_names: model.names[1:]
get_joint_names(joints) == [i \in 1..(Len(joints) - 1) |-> joints[i + 1].name]

Dof(joint, space) == IF space = "q" THEN joint.nq ELSE joint.nv

\* "enumerate all the DoF and group them by joint": one block of consecutive
\* indices per entry of model.joints
pin_to_pin(joints, space) ==
    [k \in DOMAIN joints |->
        [i \in 1..Dof(joints[k], space) |->
            SeqSum([m \in 1..(k - 1) |-> Dof(joints[m], space)]) + i - 1]]

\* "rearrange joints": q_pin_to_pin[pin_joint_names.index(name)] per new name
BlockIndex(joints, name) == PyIndex(get_joint_names(joints), name)

new_to_pin_blocks(joints, space, new_joint_list) ==
    [n \in DOMAIN new_joint_list |->
        pin_to_pin(joints, space)[BlockIndex(joints, new_joint_list[n]) + 1]]

\* "Take the inverse of the bijection": res_new_to_pin.index(pin_index)
InverseTable(table) == [p \in DOMAIN table |-> PyIndex(table, p - 1)]

\* one space (q or v) of create_dof_lookup
dof_lookup_space(joints, space, new_joint_list) ==
    IF \E n \in DOMAIN new_joint_list :
          PyIndex(get_joint_names(joints), new_joint_list[n]) = None
    THEN [ok |-> FALSE, pin_to_new |-> <<>>, new_to_pin |-> <<>>]
    ELSE LET res_new_to_pin == Flatten(new_to_pin_blocks(joints, space, new_joint_list))
             res_pin_to_new == InverseTable(res_new_to_pin)
         IN  IF None \in Range(res_pin_to_new)
             THEN [ok |-> FALSE, pin_to_new |-> <<>>, new_to_pin |-> <<>>]
             ELSE [ok |-> TRUE, pin_to_new |-> res_pin_to_new,
                   new_to_pin |-> res_new_to_pin]

create_dof_lookup(joints, new_joint_list) ==
    LET q == dof_lookup_space(joints, "q", new_joint_list)
        v == dof_lookup_space(joints, "v", new_joint_list)
    IN  [ok |-> q.ok /\ v.ok,
         q_pin_to_new |-> q.pin_to_new, q_new_to_pin |-> q.new_to_pin,
         v_pin_to_new |-> v.pin_to_new, v_new_to_pin |-> v.new_to_pin]

\* [vec[table[i]] for i in range(len(vec))]; ok is FALSE for IndexError
Reorder(vec, table) ==
    IF \A i \in DOMAIN vec : i <= Len(table) /\ table[i] + 1 <= Len(vec)
    THEN [ok |-> TRUE, res |-> [i \in DOMAIN vec |-> vec[table[i] + 1]]]
    ELSE [ok |-> FALSE, res |-> <<>>]

\* Robot._rearrange_ros_to_pin(q, v, tau)
rearrange_ros_to_pin(q, v, tau) ==
    LET q_res == Reorder(q, q_pin_to_ros)
        v_res == Reorder(v, v_pin_to_ros)
        tau_res == Reorder(tau, v_pin_to_ros)
    IN  [ok |-> q_res.ok /\ v_res.ok /\ tau_res.ok,
         q |-> q_res.res, v |-> v_res.res, tau |-> tau_res.res]

\* model.nq: the configuration scalars of the named joints
ModelNq(joints) == SeqSum([k \in 1..(Len(joints) - 1) |-> joints[k + 1].nq])

ModelNv(joints) == SeqSum([k \in 1..(Len(joints) - 1) |-> joints[k + 1].nv])

\* model.lowerPositionLimit / upperPositionLimit: 0.0 and 1.0 for every scalar
LowerLimit == 0

UpperLimit == 10000

lowerPositionLimit == [i \in 1..ModelNq(pin_joints) |-> LowerLimit]

upperPositionLimit == [i \in 1..ModelNq(pin_joints) |-> UpperLimit]

\* the 1e-3 of the bounds assertion
ClampTol == 10

Clamp(pos, i) == Min(Max(pos, lowerPositionLimit[i]), upperPositionLimit[i])

\* assert abs(pos - q[i]) < 1e-3
WithinTol_Inclusive(pos, orig) == Abs(pos - orig) <= ClampTol

WithinTol(pos, orig) == Abs(pos - orig) < ClampTol

\* the "if not raw" loop of get_meas_qvtau; ok is FALSE when it raises
clamp_to_bounds(q) ==
    IF \A i \in DOMAIN q : i <= ModelNq(pin_joints) /\ WithinTol(Clamp(q[i], i), q[i])
    THEN [ok |-> TRUE, q |-> [i \in DOMAIN q |-> Clamp(q[i], i)]]
    ELSE [ok |-> FALSE, q |-> <<>>]

\* Robot.get_meas_qvtau(raw)
get_meas_qvtau(msg, raw) ==
    LET r == rearrange_ros_to_pin(msg.position, msg.velocity, msg.effort)
        c == IF r.ok /\ ~raw THEN clamp_to_bounds(r.q) ELSE [ok |-> r.ok, q |-> r.q]
    IN  IF r.ok /\ c.ok
        THEN [status |-> "ok", raw |-> raw, q |-> c.q, v |-> r.v, tau |-> r.tau]
        ELSE [status |-> "raised", raw |-> raw, q |-> <<>>, v |-> <<>>, tau |-> <<>>]

NoMeas == [status |-> "none", raw |-> FALSE, q |-> <<>>, v |-> <<>>, tau |-> <<>>]

NoMsg == [position |-> <<>>, velocity |-> <<>>, effort |-> <<>>]

\* telemetry whose scalars are tagged by their place in the message
Tagged(base, n) == [i \in 1..n |-> base + i]

\* a JointState may leave its effort array empty
TaggedMsgs ==
    UNION {{[position |-> Tagged(100, a), velocity |-> Tagged(200, b),
             effort |-> Tagged(300, c)] : c \in {0, b}} :
           a \in 0..MaxVec, b \in 0..MaxVec}

\* telemetry with positions inside, at the edge of and beyond the limits
PosValues == {LowerLimit - ClampTol, LowerLimit - ClampTol + 1, 5000,
              UpperLimit + 5, UpperLimit + ClampTol, 11000}

ValueMsgs ==
    {[position |-> p, velocity |-> Tagged(200, Len(p)), effort |-> Tagged(300, Len(p))] :
        p \in SeqsUpTo(PosValues, MaxPos)}

RobotInitState(shapes) ==
    /\ pin_joints \in ModelJointLists(shapes)
    /\ ros_joint_names \in SeqsUpTo(RosNames, MaxJoints)
    /\ robot_pc = "new"
    /\ q_pin_to_ros = <<>> /\ q_ros_to_pin = <<>>
    /\ v_pin_to_ros = <<>> /\ v_ros_to_pin = <<>>
    /\ joints_state = NoMsg
    /\ meas = NoMeas

\* Robot.__init__, lines 50-51: build the four tables from the first message
RobotConstruct ==
    /\ robot_pc = "new"
    /\ LET t == create_dof_lookup(pin_joints, ros_joint_names)
       IN  /\ robot_pc' = IF t.ok THEN "ready" ELSE "failed"
           /\ q_pin_to_ros' = t.q_pin_to_new
           /\ q_ros_to_pin' = t.q_new_to_pin
           /\ v_pin_to_ros' = t.v_pin_to_new
           /\ v_ros_to_pin' = t.v_new_to_pin
    /\ UNCHANGED <<pin_joints, ros_joint_names, joints_state, meas>>
    /\ UNCHANGED <<planner_vars, approach_vars, script_vars>>

\* a call of get_meas_qvtau(raw): the Observer hands over the last JointState
\* message, the call reorders it and, unless raw, clamps the configuration
GetMeasQvtau(msgs) ==
    /\ robot_pc = "ready"
    /\ \E m \in msgs, raw \in BOOLEAN :
          /\ joints_state' = m
          /\ meas' = get_meas_qvtau(m, raw)
    /\ UNCHANGED <<pin_joints, ros_joint_names, robot_pc, q_pin_to_ros, q_ros_to_pin,
                   v_pin_to_ros, v_ros_to_pin>>
    /\ UNCHANGED <<planner_vars, approach_vars, script_vars>>

\* ---------------------------------------------------------- the planner
\* scalars of the target pose at the end of a configuration (q[-7:])
TargetLen == 7

Const7(x) == [i \in 1..TargetLen |-> x]

PoseA == Const7(10)

PoseB == Const7(20)

\* a pose one unit from PoseA in its first scalar
NearA == [i \in 1..TargetLen |-> IF i = 1 THEN 11 ELSE 10]

Transit == Const7(15)

Poses == {PoseA, PoseB}

\* configurations a solved path can pass through: one robot scalar, then
\* the target's pose
Configs == {<<0>> \o t : t \in {PoseA, NearA, Transit, PoseB}}

\* tolerance of compare_configurations, in the units of the poses
CompareThreshold == 1

\* prl_hpp.tools.utils.compare_configurations(a, b)
compare_configurations(a, b) ==
    /\ Len(a) = Len(b)
    /\ \A i \in DOMAIN a : Abs(a[i] - b[i]) <= CompareThreshold

\* q[-7:]
target_pos(q) == SubSeq(q, Max(1, Len(q) - TargetLen + 1), Len(q))

\* line 315-316: "if compare_configurations(target_pos, pose_pick): pick_index = i"
PickUpdate_Unconditional(q, i, pick, pose) == i

PickUpdate_First(q, i, pick, pose) ==
    IF compare_configurations(target_pos(q), pose) /\ pick = None THEN i ELSE pick

PickUpdate(q, i, pick, pose) ==
    IF compare_configurations(target_pos(q), pose) THEN i ELSE pick

\* line 317-318: "if not compare_configurations(target_pos, pose_place): place_index = i+1"
PlaceUpdate_NoPlusOne(q, i, place, pose) ==
    IF ~compare_configurations(target_pos(q), pose) THEN i ELSE place

PlaceUpdate(q, i, place, pose) ==
    IF ~compare_configurations(target_pos(q), pose) THEN i + 1 ELSE place

\* the loop of lines 311-318 from waypoint i (0-based) on
RECURSIVE ScanWps(_, _, _, _, _, _)
ScanWps(w, i, pick, place, pick_pose, place_pose) ==
    IF i >= Len(w)
    THEN [pick_index |-> pick, place_index |-> place]
    ELSE ScanWps(w, i + 1,
                 PickUpdate(w[i + 1], i, pick, pick_pose),
                 PlaceUpdate(w[i + 1], i, place, place_pose),
                 pick_pose, place_pose)

\* Planner._create_path(waypoints): waypoints[0] and waypoints[1] must exist
create_path_ok(waypoints) == Len(waypoints) >= 2

\* lines 320-323: the sub-paths made before the first statement that raises
\* (None + 1 is a TypeError, _create_path of less than two waypoints an IndexError)
CreateSubPaths(w, pick, place) ==
    LET pick_wps == PySlice(w, 0, pick + 1)
        place_wps == PySlice(w, pick, place + 1)
        home_wps == PySlice(w, place, Len(w))
    IN  IF pick = None \/ ~create_path_ok(pick_wps)
        THEN [ok |-> FALSE, paths |-> <<>>]
        ELSE IF place = None \/ ~create_path_ok(place_wps)
        THEN [ok |-> FALSE, paths |-> <<pick_wps>>]
        ELSE IF ~create_path_ok(home_wps)
        THEN [ok |-> FALSE, paths |-> <<pick_wps, place_wps>>]
        ELSE [ok |-> TRUE, paths |-> <<pick_wps, place_wps, home_wps>>]

\* no call of make_gripper_approach yet
ApproachIdle ==
    /\ ga_pc = "idle"
    /\ do_not_plan = FALSE
    /\ n_draws = 0
    /\ attempts = <<>>
    /\ q_goals = <<>>
    /\ check_paths = {}
    /\ ga_path = <<>>

GAEnded == ga_pc \in {"idle", "raised_init", "raised_nogoal", "not_planned",
                      "raised_plan", "done"}

\* the locals of an earlier make_gripper_approach call are gone
ApproachReset ==
    /\ ga_pc' = "idle"
    /\ do_not_plan' = FALSE
    /\ n_draws' = 0
    /\ attempts' = <<>>
    /\ q_goals' = <<>>
    /\ check_paths' = {}
    /\ ga_path' = <<>>

PlannerIdle ==
    /\ pp_pc = "idle"
    /\ pose_pick = PoseA /\ pose_place = PoseA
    /\ wps = <<>>
    /\ pick_index = None /\ place_index = None
    /\ sub_paths = <<>>
    /\ n_param = 0

PPEnded == pp_pc \in {"idle", "raised_init", "empty", "raised_split", "done"}

\* make_pick_and_place, lines 260-295: the poses are merged, the start and the
\* goal configuration are projected on the graph (res_init, res_goal)
PP_Call ==
    /\ PPEnded /\ GAEnded
    /\ \E pick \in Poses, place \in Poses, res_init \in BOOLEAN, res_goal \in BOOLEAN :
          /\ pose_pick' = pick
          /\ pose_place' = place
          /\ pp_pc' = IF res_init /\ res_goal THEN "solve" ELSE "raised_init"
    /\ wps' = <<>>
    /\ pick_index' = None /\ place_index' = None
    /\ sub_paths' = <<>>
    /\ n_param' = 0
    /\ ApproachReset
    /\ UNCHANGED <<robot_vars, script_vars>>

\* Planner._safe_solve(): False when ps.solve() raises the planner's Error
\* (time budget exceeded, no solution), True otherwise
safe_solve(solve_raised) == ~solve_raised

\* lines 297-310: _safe_solve, "return []" if it failed, else the path
\* optimizer and getWaypoints
PP_Solve ==
    /\ pp_pc = "solve"
    /\ \E solve_raised \in BOOLEAN :
          IF ~safe_solve(solve_raised)
          THEN /\ pp_pc' = "empty"
               /\ wps' = <<>>
          ELSE /\ pp_pc' = "split"
               /\ wps' \in SeqsUpTo(Configs, MaxWps)
    /\ UNCHANGED <<pose_pick, pose_place, pick_index, place_index, sub_paths, n_param>>
    /\ UNCHANGED <<robot_vars, approach_vars, script_vars>>

\* lines 311-338: the scan, the three sub-paths, their time parametrization
PP_Split ==
    /\ pp_pc = "split"
    /\ LET s == ScanWps(wps, 0, None, None, pose_pick, pose_place)
           c == CreateSubPaths(wps, s.pick_index, s.place_index)
       IN  /\ pick_index' = s.pick_index
           /\ place_index' = s.place_index
           /\ sub_paths' = c.paths
           /\ n_param' = IF c.ok THEN 3 ELSE 0
           /\ pp_pc' = IF c.ok THEN "done" ELSE "raised_split"
    /\ UNCHANGED <<pose_pick, pose_place, wps>>
    /\ UNCHANGED <<robot_vars, approach_vars, script_vars>>

\* the locals of an earlier make_pick_and_place call are gone
PlannerReset ==
    /\ pp_pc' = "idle"
    /\ pose_pick' = PoseA /\ pose_place' = PoseA
    /\ wps' = <<>>
    /\ pick_index' = None /\ place_index' = None
    /\ sub_paths' = <<>>
    /\ n_param' = 0

\* ------------------------------------------------- the gripper approach
\* configurations of draw k: its projection on the pre-grasp state and the
\* projection of that one on the grasp state (one robot scalar, one scalar
\* of the target)
PreGrasp(k) == <<10 * k, 0>>

Grasp(k) == <<10 * k, 5>>

\* ps.directPath(q_pre, q_grasp, True): the path it makes is added to the
\* problem solver under a new id, valid or not
directPath(paths, pathId) == paths \cup {pathId}

\* ps.erasePath(pathId)
erasePath(paths, pathId) == paths \ {pathId}

\* line 165: "if(res_pre and res_grasp)"
ProjectionsOk_PreOnly(res_pre, res_grasp) == res_pre

ProjectionsOk(res_pre, res_grasp) == res_pre /\ res_grasp

\* "for _ in range(100)": the loop is over after the last draw
SamplingOver_OneShort(n) == n >= SampleAttempts - 1

SamplingOver(n) == n >= SampleAttempts

\* line 171: "assert len(q_goals) > 0"
GoalFound_Always(goals) == TRUE

GoalFound(goals) == Len(goals) > 0

\* lines 193-196: the grasp of the first pair whose pre-grasp is the end of
\* the path, None if there is none
EndGrasp(goals, q_end) ==
    IF \E i \in DOMAIN goals : compare_configurations(goals[i][1], q_end)
    THEN goals[CHOOSE i \in DOMAIN goals :
                  /\ compare_configurations(goals[i][1], q_end)
                  /\ \A j \in 1..(i - 1) : ~compare_configurations(goals[j][1], q_end)][2]
    ELSE <<>>

\* make_gripper_approach, lines 137-160: the start configuration is projected
\* on the graph (res_init), the pool starts empty
GA_Call ==
    /\ GAEnded /\ PPEnded
    /\ \E res_init \in BOOLEAN, dnp \in BOOLEAN :
          /\ do_not_plan' = dnp
          /\ ga_pc' = IF res_init THEN "sample" ELSE "raised_init"
    /\ n_draws' = 0
    /\ attempts' = <<>>
    /\ q_goals' = <<>>
    /\ check_paths' = {}
    /\ ga_path' = <<>>
    /\ PlannerReset
    /\ UNCHANGED <<robot_vars, script_vars>>

\* lines 161-169: one pass of the loop. The draw is projected on the
\* pre-grasp state, the result on the grasp state; if both succeeded the
\* direct path between them is made and validated, and if it is valid the
\* pair is appended and the path erased
GA_Attempt ==
    /\ ga_pc = "sample"
    /\ ~SamplingOver(n_draws)
    /\ \E res_pre \in BOOLEAN, res_grasp \in BOOLEAN, res_path \in BOOLEAN :
          LET k == n_draws + 1
              checked == ProjectionsOk(res_pre, res_grasp)
              made == directPath(check_paths, k)
          IN  /\ n_draws' = k
              /\ attempts' = Append(attempts,
                                    [res_pre |-> res_pre, res_grasp |-> res_grasp,
                                     checked |-> checked,
                                     res_path |-> checked /\ res_path])
              /\ q_goals' = IF checked /\ res_path
                            THEN Append(q_goals, <<PreGrasp(k), Grasp(k)>>)
                            ELSE q_goals
              /\ check_paths' = IF ~checked THEN check_paths
                                ELSE IF res_path THEN erasePath(made, k)
                                ELSE made
    /\ UNCHANGED <<ga_pc, do_not_plan, ga_path>>
    /\ UNCHANGED <<robot_vars, planner_vars, script_vars>>

\* lines 171-175: after the loop, the assertion on the pool and do_not_plan
GA_EndSampling ==
    /\ ga_pc = "sample"
    /\ SamplingOver(n_draws)
    /\ ga_pc' = IF ~GoalFound(q_goals) THEN "raised_nogoal"
                ELSE IF do_not_plan THEN "not_planned"
                ELSE "plan"
    /\ UNCHANGED <<do_not_plan, n_draws, attempts, q_goals, check_paths, ga_path>>
    /\ UNCHANGED <<robot_vars, planner_vars, script_vars>>

\* lines 177-210: computePath towards the pre-grasps of the pool, which
\* raises the planner's Error or returns a path ending at one of them; the
\* grasp of that pre-grasp is appended and the path time-parametrized
GA_Plan ==
    /\ ga_pc = "plan"
    /\ \/ /\ ga_pc' = "raised_plan"
          /\ ga_path' = <<>>
       \/ \E g \in DOMAIN q_goals :
             LET q_end == q_goals[g][1]
             IN  /\ ga_pc' = "done"
                 /\ ga_path' = <<q_end, EndGrasp(q_goals, q_end)>>
    /\ UNCHANGED <<do_not_plan, n_draws, attempts, q_goals, check_paths>>
    /\ UNCHANGED <<robot_vars, planner_vars, script_vars>>

\* ------------------------------------------------ the impedance script
\* a wrench: force x, y, z in units of 0.1 N, torque x, y, z in units of
\* 0.1 Nm
ZeroWrench == [i \in 1..6 |-> 0]

\* force_trans_fric = 3 (N)
ForceTransFric == 30

\* force_ros_fric = 0.2 (Nm)
ForceRosFric == 2

\* the wrenches of the messages: multiples of the window length, so that
\* "wrist_f / FILT_WIN" is exact here as it is in real numbers
WrenchUnits == {ZeroWrench, <<20, -20, 5, 1, -1, 0>>, <<-5, 20, 30, 1, 1, -1>>}

WrenchSamples == {[i \in 1..6 |-> FILT_WIN * u[i]] : u \in WrenchUnits}

VecAdd(a, b) == [i \in DOMAIN a |-> a[i] + b[i]]

VecSub(a, b) == [i \in DOMAIN a |-> a[i] - b[i]]

\* wrist_f / FILT_WIN
VecDiv(a, n) == [i \in DOMAIN a |-> a[i] \div n]

\* np.sign
Sign(x) == IF x > 0 THEN 1 ELSE IF x < 0 THEN -1 ELSE 0

\* lines 113 and 115: the entry replaced leaves the running value, the new
\* one enters it
filt_avg_update_NoSub(avg, old, new) == VecAdd(avg, new)

filt_avg_update(avg, old, new) == VecAdd(VecSub(avg, old), new)

\* line 121: the threshold of component i (0-based)
fric(i) == IF i < 3 THEN ForceTransFric ELSE ForceRosFric

\* lines 119-124
res_fric(avg) ==
    [c \in 1..6 |->
        IF Abs(avg[c]) < fric(c - 1) THEN 0
        ELSE avg[c] - Sign(avg[c]) * fric(c - 1)]

\* max_trans_vel = 0.2, in units of 0.1 m/s
MaxTransVel == 2

\* max_rot_vel = pi/2, in units of pi/2 rad/s
MaxRotVel == 1

\* axes of the Joy messages (msg.axes[0] .. msg.axes[7])
JoyMsgs == {<<0, 0, 0, 0, 0, 0, 0, 0>>, <<0, 1, 0, -1, 0, 0, 1, -1>>,
            <<0, -1, 0, 0, 0, 0, 0, 1>>}

\* line 141
vel_loc(axes) ==
    <<MaxTransVel * axes[7], MaxTransVel * axes[8], MaxTransVel * axes[2],
      0, 0, MaxRotVel * axes[4]>>

\* a velocity command: vec rotated by the orientation the measurement frame
\* has at configuration rot (no rotation for rot = <<>>)
VelCmd(rot, vec) == [rot |-> rot, vec |-> vec]

NoVel == VelCmd(<<>>, <<>>)

\* np.zeros(6), line 148
ZeroVel == VelCmd(<<>>, <<0, 0, 0, 0, 0, 0>>)

\* lines 151-154: oMf_rot.act(vel_loc) with oMf the placement of the frame at q
vel_glob(q, vel) == VelCmd(q, vel)

\* "return q, v, tau" of get_meas_qvtau
ReturnedValues(res) == <<res.q, res.v, res.tau>>

\* targets of the unpacking "_, q, _, _ = robot.get_meas_qvtau()"
UnpackTargets == 4

\* lines 144-156: the try block raises when the call raises and when the
\* values returned are not as many as the targets (ValueError); the bare
\* except then commands zero
joy_command(axes, res) ==
    IF res.status = "raised" \/ Len(ReturnedValues(res)) # UnpackTargets
    THEN ZeroVel
    ELSE vel_glob(ReturnedValues(res)[2], vel_loc(axes))

ScriptIdle ==
    /\ filt_list = [i \in 1..FILT_WIN |-> ZeroWrench]
    /\ filt_i = 0
    /\ filt_avg = ZeroWrench
    /\ wrenches = <<>>
    /\ published = <<>>
    /\ joy_axes = <<>>
    /\ ee_vel = NoVel

\* control_from_fts_cb(msg)
ControlFromFtsCb ==
    /\ Len(wrenches) < MaxMsgs
    /\ \E wrist_f \in WrenchSamples :
          LET new == VecDiv(wrist_f, FILT_WIN)
              avg == filt_avg_update(filt_avg, filt_list[filt_i + 1], new)
          IN  /\ filt_list' = [filt_list EXCEPT ![filt_i + 1] = new]
              /\ filt_avg' = avg
              /\ filt_i' = (filt_i + 1) % FILT_WIN
              /\ published' = res_fric(avg)
              /\ wrenches' = Append(wrenches, wrist_f)
    /\ UNCHANGED <<joy_axes, ee_vel>>
    /\ UNCHANGED <<robot_vars, planner_vars, approach_vars>>

\* control_from_joy_cb(msg): the Observer holds the last JointState message
ControlFromJoyCb ==
    /\ robot_pc = "ready"
    /\ \E axes \in JoyMsgs, m \in ValueMsgs :
          /\ joy_axes' = axes
          /\ joints_state' = m
          /\ meas' = get_meas_qvtau(m, FALSE)
          /\ ee_vel' = joy_command(axes, get_meas_qvtau(m, FALSE))
    /\ UNCHANGED <<pin_joints, ros_joint_names, robot_pc, q_pin_to_ros, q_ros_to_pin,
                   v_pin_to_ros, v_ros_to_pin>>
    /\ UNCHANGED <<filt_list, filt_i, filt_avg, wrenches, published>>
    /\ UNCHANGED <<planner_vars, approach_vars>>

vars == <<robot_vars, planner_vars, approach_vars, script_vars>>

\* the robot with tagged telemetry: layouts of every shape
InitLookup == RobotInitState(DofShapes) /\ PlannerIdle /\ ApproachIdle /\ ScriptIdle

NextLookup == RobotConstruct \/ GetMeasQvtau(TaggedMsgs)

SpecLookup == InitLookup /\ [][NextLookup]_vars

\* the robot with one scalar per joint and telemetry around the joint limits
InitBounds == RobotInitState({<<1, 1>>}) /\ PlannerIdle /\ ApproachIdle /\ ScriptIdle

NextBounds == RobotConstruct \/ GetMeasQvtau(ValueMsgs)

SpecBounds == InitBounds /\ [][NextBounds]_vars

\* the planner of a robot with one revolute joint, already constructed
RobotOfPlanner ==
    /\ pin_joints = <<UniverseJoint, Joint("A", <<1, 1>>)>>
    /\ ros_joint_names = <<"A">>
    /\ robot_pc = "ready"
    /\ q_pin_to_ros = <<0>> /\ q_ros_to_pin = <<0>>
    /\ v_pin_to_ros = <<0>> /\ v_ros_to_pin = <<0>>
    /\ joints_state = NoMsg
    /\ meas = NoMeas

InitPlanner == RobotOfPlanner /\ PlannerIdle /\ ApproachIdle /\ ScriptIdle

NextPlanner == PP_Call \/ PP_Solve \/ PP_Split

SpecPlanner == InitPlanner /\ [][NextPlanner]_vars

\* make_gripper_approach alone
InitApproach == RobotOfPlanner /\ PlannerIdle /\ ApproachIdle /\ ScriptIdle

NextApproach == GA_Call \/ GA_Attempt \/ GA_EndSampling \/ GA_Plan

SpecApproach == InitApproach /\ [][NextApproach]_vars

\* the two planning entry points, called one after the other
InitEntryPoints == RobotOfPlanner /\ PlannerIdle /\ ApproachIdle /\ ScriptIdle

NextEntryPoints == NextPlanner \/ NextApproach

SpecEntryPoints == InitEntryPoints /\ [][NextEntryPoints]_vars

\* the wrench filter of the script
InitFilter == RobotOfPlanner /\ PlannerIdle /\ ApproachIdle /\ ScriptIdle

NextFilter == ControlFromFtsCb

SpecFilter == InitFilter /\ [][NextFilter]_vars

\* the joystick callback of the script, on the one-joint robot
InitJoy == RobotOfPlanner /\ PlannerIdle /\ ApproachIdle /\ ScriptIdle

NextJoy == ControlFromJoyCb

SpecJoy == InitJoy /\ [][NextJoy]_vars

\* --------------------------------------------- the layouts, as specified
ModelNames == get_joint_names(pin_joints)

\* the external joint list is a permutation of the model's joint names
IsPermutationOfModel ==
    /\ Len(ros_joint_names) = Len(ModelNames)
    /\ Range(ros_joint_names) = Range(ModelNames)

NamedJoint(name) == pin_joints[PyIndex(ModelNames, name) + 2]

\* first internal index of the joint's own block: the scalars of the named
\* joints before it in the model
InternalStart(name, space) ==
    SeqSum([m \in 1..PyIndex(ModelNames, name) |-> Dof(pin_joints[m + 1], space)])

\* first external index of the n-th joint of the external list
ExternalStart(n, space) ==
    SeqSum([m \in 1..(n - 1) |-> Dof(NamedJoint(ros_joint_names[m]), space)])

\* each named joint's own internal block, concatenated in external order
ExpectedNewToPin(space) ==
    Flatten([n \in DOMAIN ros_joint_names |->
                [k \in 1..Dof(NamedJoint(ros_joint_names[n]), space) |->
                    InternalStart(ros_joint_names[n], space) + k - 1]])

IsBijectionPair(pin_to_new, new_to_pin, N) ==
    /\ Len(pin_to_new) = N
    /\ Len(new_to_pin) = N
    /\ \A i \in 0..(N - 1) :
          /\ new_to_pin[pin_to_new[i + 1] + 1] = i
          /\ pin_to_new[new_to_pin[i + 1] + 1] = i

\* C1: for a permutation of the model's joint names, create_dof_lookup returns
\* two pairs of tables, each a bijection on [0, N) with N the model's scalar
\* count of that space (sum of nq, sum of nv)
C1_Bijection ==
    (robot_pc # "new" /\ IsPermutationOfModel) =>
        /\ robot_pc = "ready"
        /\ IsBijectionPair(q_pin_to_ros, q_ros_to_pin, ModelNq(pin_joints))
        /\ IsBijectionPair(v_pin_to_ros, v_ros_to_pin, ModelNv(pin_joints))

\* C2: the external-to-internal table is the concatenation, in external joint
\* order, of each named joint's own internal scalar block
C2_ExternalToInternal ==
    robot_pc = "ready" =>
        /\ q_ros_to_pin = ExpectedNewToPin("q")
        /\ v_ros_to_pin = ExpectedNewToPin("v")

\* C3: create_dof_lookup raises whenever the two layouts do not name the same
\* set of joints
C3_MismatchRaises ==
    (robot_pc # "new" /\ Range(ros_joint_names) # Range(ModelNames)) =>
        robot_pc = "failed"

TelemetryFitsLayout ==
    /\ Len(joints_state.position) = ModelNq(pin_joints)
    /\ Len(joints_state.velocity) = ModelNv(pin_joints)
    /\ Len(joints_state.effort) = ModelNv(pin_joints)

\* the k-th scalar of every joint sits at the joint's internal index
PlacedByJoint(res, vec, space) ==
    \A n \in DOMAIN ros_joint_names :
        \A k \in 1..Dof(NamedJoint(ros_joint_names[n]), space) :
            res[InternalStart(ros_joint_names[n], space) + k]
                = vec[ExternalStart(n, space) + k]

\* C4: a returning get_meas_qvtau(raw=True) gives r[i] = vector[table[i]] with
\* the q table for q and the v table for v and tau, and so every telemetry
\* scalar at the internal index of the joint scalar it belongs to
C4_ReorderPlacesScalars ==
    (meas.status = "ok" /\ meas.raw /\ IsPermutationOfModel /\ TelemetryFitsLayout) =>
        /\ \A i \in DOMAIN meas.q :
              meas.q[i] = joints_state.position[q_pin_to_ros[i] + 1]
        /\ \A i \in DOMAIN meas.v :
              meas.v[i] = joints_state.velocity[v_pin_to_ros[i] + 1]
        /\ \A i \in DOMAIN meas.tau :
              meas.tau[i] = joints_state.effort[v_pin_to_ros[i] + 1]
        /\ PlacedByJoint(meas.q, joints_state.position, "q")
        /\ PlacedByJoint(meas.v, joints_state.velocity, "v")
        /\ PlacedByJoint(meas.tau, joints_state.effort, "v")

\* C5: reordering a vector whose length differs from its table's raises
C5_LengthMismatchRaises ==
    (/\ meas.status # "none"
     /\ \/ Len(joints_state.position) # Len(q_pin_to_ros)
        \/ Len(joints_state.velocity) # Len(v_pin_to_ros)
        \/ Len(joints_state.effort) # Len(v_pin_to_ros)) =>
        meas.status = "raised"

\* the reordered telemetry of the last call, before any clamp
Reordered ==
    rearrange_ros_to_pin(joints_state.position, joints_state.velocity,
                         joints_state.effort)

ClampChange(i) == Abs(Clamp(Reordered.q[i], i) - Reordered.q[i])

ClampedCall == meas.status # "none" /\ ~meas.raw /\ Reordered.ok

ClampedResult ==
    /\ meas.q = [i \in DOMAIN Reordered.q |-> Clamp(Reordered.q[i], i)]
    /\ \A i \in DOMAIN meas.q :
          LowerLimit <= meas.q[i] /\ meas.q[i] <= UpperLimit
    /\ meas.v = Reordered.v
    /\ meas.tau = Reordered.tau

MatchesPick(i) == compare_configurations(target_pos(wps[i + 1]), pose_pick)

MatchesPlace(i) == compare_configurations(target_pos(wps[i + 1]), pose_place)

WpIndices == 0..(Len(wps) - 1)

\* the scan has run in the last call
Scanned == pp_pc \in {"raised_split", "done"}

\* the waypoints lo..hi (0-based, inclusive) that exist
WpRange(lo, hi) ==
    [i \in 1..(Min(hi, Len(wps) - 1) - lo + 1) |-> wps[lo + i]]

\* every sub-path made so far is made of the waypoints of its range
SubPathsAre(pick_range, place_range, home_range) ==
    /\ Len(sub_paths) >= 1 => sub_paths[1] = pick_range
    /\ Len(sub_paths) >= 2 => sub_paths[2] = place_range
    /\ Len(sub_paths) >= 3 => sub_paths[3] = home_range

\* C7: the pick boundary is the largest index matching the pick pose, the
\* place boundary one past the largest index not matching the place pose,
\* and the sub-paths are made of [0, pick], [pick, place], [place, end]
C7_Boundaries ==
    Scanned =>
        /\ IF \E i \in WpIndices : MatchesPick(i)
           THEN /\ pick_index \in WpIndices
                /\ MatchesPick(pick_index)
                /\ \A i \in WpIndices : i > pick_index => ~MatchesPick(i)
           ELSE pick_index = None
        /\ IF \E i \in WpIndices : ~MatchesPlace(i)
           THEN /\ (place_index - 1) \in WpIndices
                /\ ~MatchesPlace(place_index - 1)
                /\ \A i \in WpIndices : i > place_index - 1 => MatchesPlace(i)
           ELSE place_index = None
        /\ SubPathsAre(WpRange(0, pick_index), WpRange(pick_index, place_index),
                       WpRange(place_index, Len(wps) - 1))
        /\ pp_pc = "done" => Len(sub_paths) = 3

\* three sub-paths were made, the boundaries strictly inside the path
C7_Witness ==
    /\ pp_pc = "done"
    /\ Len(sub_paths) = 3
    /\ 0 < pick_index /\ pick_index + 1 < place_index
    /\ place_index + 1 < Len(wps)

\* waypoints 0..k match the pick pose only, k+1..m match neither pose,
\* m+1..end match the place pose only
PickTransitPlace(k, m) ==
    /\ k <= m
    /\ \A i \in WpIndices :
          /\ MatchesPick(i) <=> i <= k
          /\ MatchesPlace(i) <=> i > m

\* C8 as stated: such a path is cut in pick=[0,k], place=[k,m], home=[m,end]
C8_RangesAsStated ==
    \A k, m \in WpIndices :
        (pp_pc = "done" /\ PickTransitPlace(k, m)) =>
            sub_paths = <<WpRange(0, k), WpRange(k, m), WpRange(m, Len(wps) - 1)>>

\* C8 amended: for such a path with a waypoint at the place pose (m < end) the
\* boundaries are k and m+1 and the sub-paths made are made of pick=[0,k],
\* place=[k,m+1], home=[m+1,end]
C8_RangesShareFirstPlaceWaypoint ==
    \A k, m \in WpIndices :
        (Scanned /\ PickTransitPlace(k, m) /\ m < Len(wps) - 1) =>
            /\ pick_index = k
            /\ place_index = m + 1
            /\ SubPathsAre(WpRange(0, k), WpRange(k, m + 1),
                           WpRange(m + 1, Len(wps) - 1))
            /\ pp_pc = "done" => Len(sub_paths) = 3

\* the five waypoints of the scenario: 0-1 at pick, 2-3 in transit, 4 at place
C8_Witness ==
    /\ Scanned
    /\ Len(wps) = 5
    /\ PickTransitPlace(1, 3)
    /\ pick_index = 1 /\ place_index = 4
    /\ Len(sub_paths) = 2

\* C9: when every waypoint matches the place pose and one matches the pick
\* pose, the call does not raise, the place boundary is the length and the
\* home range is empty (stated for a pick boundary past the first waypoint,
\* where the pick sub-path has the two waypoints _create_path reads)
C9_AllAtPlaceCompletes ==
    (/\ Scanned
     /\ \A i \in WpIndices : MatchesPlace(i)
     /\ \E i \in WpIndices : i >= 1 /\ MatchesPick(i)) =>
        /\ pp_pc = "done"
        /\ place_index = Len(wps)

\* C10: when no waypoint matches the pick pose the call raises with no
\* sub-path made, no time parametrization and no Path returned
C10_NoPickRaises ==
    (Scanned /\ \A i \in WpIndices : ~MatchesPick(i)) =>
        /\ pp_pc = "raised_split"
        /\ sub_paths = <<>>
        /\ n_param = 0

\* a path of several waypoints, none at the pick pose
C10_Witness ==
    /\ pp_pc = "raised_split"
    /\ Len(wps) >= 2
    /\ \A i \in WpIndices : ~MatchesPick(i)
    /\ pick_index = None

\* C11: when some waypoint matches the pick pose and some the place pose, the
\* ranges [0, pick], [pick, place], [place, end] follow each other in the
\* order pick, place, home, overlap in their boundary waypoints only and
\* cover every index (stated where some waypoint is away from the place
\* pose, so that the scan sets a place boundary)
C11_RangesPartition ==
    (/\ Scanned
     /\ \E i \in WpIndices : MatchesPick(i)
     /\ \E i \in WpIndices : MatchesPlace(i)
     /\ \E i \in WpIndices : ~MatchesPlace(i)) =>
        /\ pick_index \in WpIndices
        /\ pick_index <= place_index
        /\ place_index <= Len(wps)

\* C17: whenever the scan finds both boundaries the call ends with the three
\* sub-paths, each made of the waypoints of its range in order, and with
\* three time parametrizations, however short a range is
C17_EveryRangeMaterialized ==
    (Scanned /\ pick_index # None /\ place_index # None) =>
        /\ pp_pc = "done"
        /\ sub_paths = <<WpRange(0, pick_index), WpRange(pick_index, place_index),
                         WpRange(place_index, Len(wps) - 1)>>
        /\ n_param = 3

\* ------------------------------------------------ the sampler, as specified
\* the sampling loop of the last call is over
GASampled == ga_pc \in {"raised_nogoal", "not_planned", "plan", "raised_plan", "done"}

\* accept targets that can stop a loop of SampleAttempts draws early
AcceptTargets == 1..(SampleAttempts - 1)

\* C12 as stated: for some accept target below the attempt budget, the pool
\* never holds more than the target, no draw is pending once the target is
\* reached, the loop ends at the target or after all the draws, and the
\* draws never exceed the budget
C12_StopsAtAcceptTarget ==
    \E t \in AcceptTargets :
        /\ n_draws <= SampleAttempts
        /\ Len(q_goals) <= t
        /\ (ga_pc = "sample" /\ n_draws < SampleAttempts) => Len(q_goals) < t
        /\ GASampled => (Len(q_goals) = t \/ n_draws = SampleAttempts)

\* C12 amended: the loop ends after all its draws and only then, whatever was
\* accepted; the pool holds at most one pair per draw made, and the draws
\* never exceed the budget
C12_AlwaysAllDraws ==
    /\ n_draws <= SampleAttempts
    /\ Len(q_goals) <= n_draws
    /\ GASampled => n_draws = SampleAttempts

\* every draw was accepted and the loop went on to the last one
C12_Witness ==
    /\ GASampled
    /\ n_draws = SampleAttempts
    /\ Len(q_goals) = SampleAttempts

\* C13 as stated: sampling that ends with an empty pool ends the call
\* without an exception
C13_EmptyPoolNotFatal ==
    (GASampled /\ q_goals = <<>>) =>
        ga_pc \notin {"raised_nogoal", "raised_plan"}

\* C13 amended: sampling that ends with an empty pool makes the call raise
\* at the assertion on the pool, with or without do_not_plan, after all the
\* draws and with no path made; the assertion fails in no other case
C13_EmptyPoolRaises ==
    /\ (GASampled /\ q_goals = <<>>) =>
          /\ ga_pc = "raised_nogoal"
          /\ n_draws = SampleAttempts
          /\ ga_path = <<>>
    /\ ga_pc = "raised_nogoal" => q_goals = <<>>

\* every pre-grasp projection succeeded, every direct path was invalid
C13_Witness ==
    /\ ga_pc = "raised_nogoal"
    /\ Len(attempts) = SampleAttempts
    /\ \A k \in DOMAIN attempts :
          attempts[k].res_pre /\ attempts[k].checked /\ ~attempts[k].res_path

\* C14: each pair of the pool is the pair of a draw whose two projections
\* and whose direct path succeeded, the direct path is made only for draws
\* whose two projections succeeded, and the pool is in the order of the draws
C14_AcceptedAsChecked ==
    /\ Len(attempts) = n_draws
    /\ \A k \in DOMAIN attempts :
          attempts[k].checked => (attempts[k].res_pre /\ attempts[k].res_grasp)
    /\ \A i \in DOMAIN q_goals :
          \E k \in DOMAIN attempts :
              /\ q_goals[i] = <<PreGrasp(k), Grasp(k)>>
              /\ attempts[k].res_pre /\ attempts[k].res_grasp
              /\ attempts[k].checked /\ attempts[k].res_path
    /\ \A i, j \in DOMAIN q_goals :
          i < j => q_goals[i][1][1] < q_goals[j][1][1]

\* draws 1 and 3 accepted, draw 2 rejected by its grasp projection
C14_Witness ==
    /\ Len(attempts) >= 3
    /\ attempts[2].res_pre /\ ~attempts[2].res_grasp /\ ~attempts[2].checked
    /\ Len(q_goals) >= 2
    /\ q_goals[1] = <<PreGrasp(1), Grasp(1)>>
    /\ q_goals[2] = <<PreGrasp(3), Grasp(3)>>

\* C15: between two attempts and after the loop the problem solver holds no
\* path made by a direct-connection check
C15_CheckPathsReleased == check_paths = {}

\* C16: no entry point ends with the planner's Error of its solve call; a
\* make_pick_and_place whose solve failed returned the empty list without a
\* scan, a sub-path or a time parametrization
C16_SolveFailureNotFatal ==
    /\ ga_pc # "raised_plan"
    /\ pp_pc = "empty" =>
          /\ wps = <<>>
          /\ pick_index = None /\ place_index = None
          /\ sub_paths = <<>>
          /\ n_param = 0

\* ------------------------------------------------- the script, as specified
\* C18: for every Joy message handled while get_meas_qvtau returns, the
\* command is the joystick velocity rotated by the frame's orientation at
\* the measured configuration; zero is commanded when the reading raises
\* (stated for telemetry of the model's lengths)
C18_ZeroOnlyWhenOutOfBounds ==
    (joy_axes # <<>> /\ TelemetryFitsLayout) =>
        /\ meas.status = "ok" => ee_vel = vel_glob(meas.q, vel_loc(joy_axes))
        /\ meas.status = "raised" => ee_vel = ZeroVel

RECURSIVE SumWrenches(_)
SumWrenches(ws) ==
    IF ws = <<>> THEN ZeroWrench ELSE VecAdd(Head(ws), SumWrenches(Tail(ws)))

\* the last FILT_WIN wrench samples processed
LastWindow == SubSeq(wrenches, Len(wrenches) - FILT_WIN + 1, Len(wrenches))

\* the friction threshold of component c (1-based): forces, then torques
Threshold(c) == IF c <= 3 THEN ForceTransFric ELSE ForceRosFric

\* C19: filt_avg is the sum of the entries of filt_list, filt_i the number of
\* messages processed modulo FILT_WIN, from FILT_WIN messages on filt_avg is
\* the mean of the last FILT_WIN samples, and each published component is 0
\* for a filtered component below its threshold and otherwise the filtered
\* component moved towards zero by the threshold
C19_FilterInvariant ==
    /\ filt_avg = SumWrenches(filt_list)
    /\ filt_i = Len(wrenches) % FILT_WIN
    /\ filt_i \in 0..(FILT_WIN - 1)
    /\ Len(wrenches) >= FILT_WIN =>
          \A c \in 1..6 : FILT_WIN * filt_avg[c] = SumWrenches(LastWindow)[c]
    /\ published # <<>> =>
          \A c \in 1..6 :
              IF Abs(filt_avg[c]) < Threshold(c)
              THEN published[c] = 0
              ELSE /\ filt_avg[c] > 0 => published[c] = filt_avg[c] - Threshold(c)
                   /\ filt_avg[c] < 0 => published[c] = filt_avg[c] + Threshold(c)
                   /\ published[c] * filt_avg[c] >= 0
                   /\ Abs(published[c]) <= Abs(filt_avg[c])

\* the window has wrapped over samples that differ, one component is cut to
\* zero and another published reduced by its threshold
C19_Witness ==
    /\ Len(wrenches) > FILT_WIN
    /\ wrenches[1] # wrenches[Len(wrenches)]
    /\ wrenches[1] # ZeroWrench
    /\ \E c \in 1..6 : filt_avg[c] # 0 /\ published[c] = 0
    /\ \E c \in 1..6 : published[c] < 0 /\ published[c] = filt_avg[c] + Threshold(c)
    /\ \E c \in 1..6 : published[c] > 0

====
